---- MODULE Spec2Model ----
(***************************************************************************)
(* Pascal Triangle activity (src/pascaltriangle.py).                       *)
(*                                                                         *)
(* The state is the fields of PascalTriangleActivity that the game logic   *)
(* reads and writes, the alerts the activity window holds, and the journal *)
(* file.  Every handler of the activity is a function from a state record  *)
(* (and its inputs) to a state record; an action applies one handler.      *)
(*                                                                         *)
(* A cell index is the tuple <<row, column>>; (-1, -1) is "no selection".  *)
(* The text typed into a cell is the sequence of its characters.           *)
(* _blank_cells is a Python list: it is a sequence here.  list(set(x))     *)
(* yields the distinct members of x in an order CPython fixes by hashing;  *)
(* the model takes row-major order for it (no handler depends on the       *)
(* order, only on membership, length and removal of the first occurrence). *)
(*                                                                         *)
(* An exception that leaves a GTK signal handler is reported by PyGObject  *)
(* and the handler is abandoned where it raised: the assignments made      *)
(* before the raise stay.  `last` records, for the handler that ran last,  *)
(* its name and how it ended.                                              *)
(***************************************************************************)
EXTENDS Integers, Sequences, FiniteSets, TLC

VARIABLES
    triangle_size,      \* self._triangle_size
    blank_cells,        \* self._blank_cells
    current_cell,       \* self._current_cell
    current_cell_text,  \* self._current_cell_text
    show_hints,         \* self._show_hints (and the hint button's active state)
    alert,              \* self._alert is an Alert (TRUE) or None (FALSE)
    window_alerts,      \* number of alerts added to the window and not removed
    file,               \* the journal file written by write_file
    last                \* the handler that ran last and how it ended

vars == <<triangle_size, blank_cells, current_cell, current_cell_text,
          show_hints, alert, window_alerts, file, last>>

game == <<triangle_size, blank_cells, current_cell, current_cell_text,
          show_hints>>

-----------------------------------------------------------------------------
(* Bounds of the model *)

\* most random cell draws of one _generate_blank_cell_list call
MaxDraws == 2

\* most alerts the window holds at once
MaxAlerts == 2

-----------------------------------------------------------------------------
(* Program constants *)

SliderMin == 2
SliderMax == 10
InitialSize == 5
MaxTextLen == 2
SavedFields == 5

NoCell == <<-1, -1>>

NoFile == [kind |-> "missing", obj |-> <<>>]

-----------------------------------------------------------------------------
(* Helpers *)

Range(f) == {f[i] : i \in DOMAIN f}

Min(a, b) == IF a <= b THEN a ELSE b

Max(a, b) == IF a >= b THEN a ELSE b

\* the cells the drawing loops visit: range(size) x range(row + 1)
Cells(n) == {c \in (0 .. n - 1) \X (0 .. n - 1) : c[2] <= c[1]}

CellBefore(a, b) == a[1] < b[1] \/ (a[1] = b[1] /\ a[2] < b[2])

RECURSIVE ListOfSet(_)
\* list(set(...)): the members of S, each once
ListOfSet(S) ==
    IF S = {} THEN <<>>
    ELSE LET m == CHOOSE x \in S : \A y \in S : x = y \/ CellBefore(x, y)
         IN  <<m>> \o ListOfSet(S \ {m})

\* variant: the first element is dropped, whichever it is
ListRemove_first_element(l, x) == SubSeq(l, 2, Len(l))

\* list.remove(x): drop the first occurrence of x (x is in the list)
ListRemove(l, x) ==
    LET i == CHOOSE k \in 1 .. Len(l) :
                 l[k] = x /\ \A j \in 1 .. k - 1 : l[j] # x
    IN  SubSeq(l, 1, i - 1) \o SubSeq(l, i + 1, Len(l))

\* '%i' % digit
DigitChar(d) == <<"0", "1", "2", "3", "4", "5", "6", "7", "8", "9">>[d + 1]

CharValue(ch) == CHOOSE d \in 0 .. 9 : DigitChar(d) = ch

RECURSIVE ParseInt(_)
\* int(text) for a non-empty string of decimal digits
ParseInt(text) ==
    IF Len(text) = 0 THEN 0
    ELSE 10 * ParseInt(SubSeq(text, 1, Len(text) - 1))
         + CharValue(text[Len(text)])

RECURSIVE DecimalDigits(_)
\* the decimal digits of v >= 0, most significant first
DecimalDigits(v) ==
    IF v < 10 THEN <<v>> ELSE DecimalDigits(v \div 10) \o <<v % 10>>

RECURSIVE factorial(_)
\* math.factorial, for n >= 0
factorial(n) == IF n <= 0 THEN 1 ELSE n * factorial(n - 1)

-----------------------------------------------------------------------------
(* The state record the handlers work on *)

State ==
    [triangle_size     |-> triangle_size,
     blank_cells       |-> blank_cells,
     current_cell      |-> current_cell,
     current_cell_text |-> current_cell_text,
     show_hints        |-> show_hints,
     alert             |-> alert,
     window_alerts     |-> window_alerts,
     raised            |-> "none",
     warned            |-> "none",
     accepted          |-> FALSE,
     alerted           |-> FALSE,
     started           |-> FALSE,
     checked           |-> <<>>,
     ignored           |-> 0]

Apply(op, s) ==
    /\ triangle_size' = s.triangle_size
    /\ blank_cells' = s.blank_cells
    /\ current_cell' = s.current_cell
    /\ current_cell_text' = s.current_cell_text
    /\ show_hints' = s.show_hints
    /\ alert' = s.alert
    /\ window_alerts' = s.window_alerts
    /\ last' = [op |-> op, raised |-> s.raised, warned |-> s.warned,
                accepted |-> s.accepted, alerted |-> s.alerted,
                started |-> s.started, checked |-> s.checked,
                ignored |-> s.ignored]

-----------------------------------------------------------------------------
(* TriangleModel *)

calculate_number_of_cells(n) == (n * (n + 1)) \div 2

\* the outcomes of the random.randint calls of one _generate_blank_cell_list
\* call: num_blanks (at most MaxDraws here) and the cell of every draw, a
\* cell of the triangle (among those of pool, the cells the specification
\* lets the random source return)
RandomDraws(n, pool) ==
    UNION {[1 .. k -> Cells(n) \cap pool] :
              k \in 1 .. Min(calculate_number_of_cells(n), MaxDraws)}

\* no draw is made
NoDraws == {<<>>}

\* variant: the draws as drawn, duplicates kept
generate_blank_cell_list_keep_duplicates(draws) == draws

generate_blank_cell_list(draws) == ListOfSet(Range(draws))

\* math.factorial raises ValueError for a negative argument
pascal_number_raises(index) ==
    index[1] < 0 \/ index[2] < 0 \/ index[1] - index[2] < 0

\* variant: the denominator lacks factorial(row - column)
calculate_pascal_number_short_denominator(index) ==
    factorial(index[1]) \div factorial(index[2])

calculate_pascal_number(index) ==
    factorial(index[1])
        \div (factorial(index[2]) * factorial(index[1] - index[2]))

-----------------------------------------------------------------------------
(* GameState handlers *)

\* variant: the selection and the text of the previous game stay
start_game_keep_selection(s, draws) ==
    [s EXCEPT !.window_alerts = IF s.alert THEN @ - 1 ELSE @,
              !.alert = FALSE,
              !.blank_cells = generate_blank_cell_list(draws),
              !.started = TRUE]

start_game(s, draws) ==
    [s EXCEPT !.window_alerts = IF s.alert THEN @ - 1 ELSE @,
              !.alert = FALSE,
              !.current_cell = NoCell,
              !.current_cell_text = <<>>,
              !.blank_cells = generate_blank_cell_list(draws),
              !.started = TRUE]

\* variant: the selection moves and the text typed so far stays
update_current_cell_keep_text(s, index) ==
    IF index # s.current_cell
    THEN [s EXCEPT !.current_cell = index]
    ELSE s

\* variant: the text is emptied on every call
update_current_cell_always_clear(s, index) ==
    [s EXCEPT !.current_cell = index, !.current_cell_text = <<>>]

update_current_cell(s, index) ==
    IF index # s.current_cell
    THEN [s EXCEPT !.current_cell = index, !.current_cell_text = <<>>]
    ELSE s

\* lines 500-518: the 'game over' alert
check_all_filled(s) ==
    IF Len(s.blank_cells) = 0
    THEN [s EXCEPT !.alert = TRUE, !.window_alerts = @ + 1,
                   !.alerted = TRUE]
    ELSE s

\* variant: the text is compared with the decimal representation of the
\* value, character by character
check_current_cell_text_as_string(s) ==
    IF pascal_number_raises(s.current_cell)
    THEN [s EXCEPT !.raised = "ValueError"]
    ELSE IF s.current_cell_text
                = [i \in 1 .. Len(DecimalDigits(calculate_pascal_number(
                                                    s.current_cell))) |->
                      DigitChar(DecimalDigits(calculate_pascal_number(
                                                  s.current_cell))[i])]
    THEN IF s.current_cell \notin Range(s.blank_cells)
         THEN [s EXCEPT !.raised = "ValueError",
                        !.checked = s.current_cell_text]
         ELSE check_all_filled(
                  update_current_cell(
                      [s EXCEPT !.blank_cells = ListRemove(@, s.current_cell),
                                !.accepted = TRUE,
                                !.checked = s.current_cell_text],
                      NoCell))
    ELSE check_all_filled([s EXCEPT !.checked = s.current_cell_text])

\* s.checked: the text int() was given
check_current_cell_text(s) ==
    IF pascal_number_raises(s.current_cell)
    THEN [s EXCEPT !.raised = "ValueError"]
    ELSE IF Len(s.current_cell_text) = 0
    THEN [s EXCEPT !.raised = "ValueError"]
    ELSE IF ParseInt(s.current_cell_text)
                = calculate_pascal_number(s.current_cell)
    THEN IF s.current_cell \notin Range(s.blank_cells)
         THEN [s EXCEPT !.raised = "ValueError",
                        !.checked = s.current_cell_text]
         ELSE check_all_filled(
                  update_current_cell(
                      [s EXCEPT !.blank_cells = ListRemove(@, s.current_cell),
                                !.accepted = TRUE,
                                !.checked = s.current_cell_text],
                      NoCell))
    ELSE check_all_filled([s EXCEPT !.checked = s.current_cell_text])

\* variant: the digit is appended whatever the length of the text
key_press_digit_unclamped(s, digit) ==
    check_current_cell_text(
        [s EXCEPT !.current_cell_text = @ \o <<DigitChar(digit)>>])

\* a digit key, no modifiers
key_press_digit(s, digit) ==
    check_current_cell_text(
        IF Len(s.current_cell_text) < MaxTextLen
        THEN [s EXCEPT !.current_cell_text = @ \o <<DigitChar(digit)>>]
        ELSE s)

\* variant: the answer check runs after the character is removed
key_press_backspace_then_check(s) ==
    check_current_cell_text(
        [s EXCEPT !.current_cell_text = SubSeq(@, 1, Len(@) - 1)])

\* the BackSpace key, no modifiers: text[:-1]
key_press_backspace(s) ==
    [s EXCEPT !.current_cell_text = SubSeq(@, 1, Len(@) - 1)]

\* found: the first cell of the loop within the radius of the cursor, or
\* NoCell when the loop ends without one
button_press(s, found) == update_current_cell(s, found)

set_show_hints(s, val) ==
    IF s.show_hints # val THEN [s EXCEPT !.show_hints = val] ELSE s

\* variant: the size is set and the game in progress kept
slider_value_changed_keep_game(s, value, draws) ==
    IF value # s.triangle_size
    THEN [s EXCEPT !.triangle_size = value]
    ELSE s

\* variant: a game is started whether or not the value is another size
slider_value_changed_always_restart(s, value, draws) ==
    start_game([s EXCEPT !.triangle_size = value], draws)

slider_value_changed(s, value, draws) ==
    IF value # s.triangle_size
    THEN start_game([s EXCEPT !.triangle_size = value], draws)
    ELSE s

alert_response(s, draws) == start_game(s, draws)

-----------------------------------------------------------------------------
(* Drawing *)

\* variant: the cells above the selected cell are tested before the edge
get_cell_background_parents_first(s, index) ==
    IF index = s.current_cell
    THEN "green"
    ELSE IF /\ s.show_hints
            /\ index[1] = s.current_cell[1] - 1
            /\ (\/ index[2] = s.current_cell[2] - 1
                \/ index[2] = s.current_cell[2])
    THEN "yellow"
    ELSE IF /\ s.show_hints
            /\ s.current_cell # NoCell
            /\ (\/ s.current_cell[2] = 0
                \/ s.current_cell[2] = s.current_cell[1])
            /\ (index[2] = 0 \/ index[2] = index[1])
    THEN "blue"
    ELSE "white"

\* variant: the edge test lacks current_cell != (-1, -1)
get_cell_background_any_selection(s, index) ==
    IF index = s.current_cell
    THEN "green"
    ELSE IF /\ s.show_hints
            /\ (\/ s.current_cell[2] = 0
                \/ s.current_cell[2] = s.current_cell[1])
            /\ (index[2] = 0 \/ index[2] = index[1])
    THEN "blue"
    ELSE IF /\ s.show_hints
            /\ index[1] = s.current_cell[1] - 1
            /\ (\/ index[2] = s.current_cell[2] - 1
                \/ index[2] = s.current_cell[2])
    THEN "yellow"
    ELSE "white"

\* the colour of the cairo pattern returned: green for the selected cell,
\* blue for the edge hint, yellow for the hint of the two cells above,
\* white otherwise
get_cell_background(s, index) ==
    IF index = s.current_cell
    THEN "green"
    ELSE IF /\ s.show_hints
            /\ s.current_cell # NoCell
            /\ (\/ s.current_cell[2] = 0
                \/ s.current_cell[2] = s.current_cell[1])
            /\ (index[2] = 0 \/ index[2] = index[1])
    THEN "blue"
    ELSE IF /\ s.show_hints
            /\ index[1] = s.current_cell[1] - 1
            /\ (\/ index[2] = s.current_cell[2] - 1
                \/ index[2] = s.current_cell[2])
    THEN "yellow"
    ELSE "white"

-----------------------------------------------------------------------------
(* Journal *)

write_obj(s) ==
    <<s.triangle_size, s.blank_cells, s.current_cell, s.current_cell_text,
      s.show_hints>>

\* Gtk.Range.set_value clamps to the range set_range gave
SliderClamp(v) == Max(SliderMin, Min(SliderMax, v))

\* variant: the saved size is applied last, after the rest of the game
read_file_size_last(s, f, draws) ==
    IF f.kind = "missing" THEN [s EXCEPT !.warned = "EnvironmentError"]
    ELSE IF f.kind = "garbage" THEN [s EXCEPT !.warned = "UnpicklingError"]
    ELSE IF Len(f.obj) < SavedFields
    THEN [s EXCEPT !.warned = "UnpicklingError"]
    ELSE LET s1 == [s EXCEPT !.blank_cells = f.obj[2],
                             !.current_cell = f.obj[3],
                             !.current_cell_text = f.obj[4]]
             s2 == set_show_hints(s1, f.obj[5])
         IN  [slider_value_changed(s2, SliderClamp(f.obj[1]), draws)
                  EXCEPT !.ignored = Len(f.obj) - SavedFields]

\* variant: the length of the tuple is checked after the size is applied
read_file_late_check(s, f, draws) ==
    IF f.kind = "missing" THEN [s EXCEPT !.warned = "EnvironmentError"]
    ELSE IF f.kind = "garbage" THEN [s EXCEPT !.warned = "UnpicklingError"]
    ELSE IF Len(f.obj) = 0
    THEN [s EXCEPT !.warned = "UnpicklingError"]
    ELSE LET s1 == slider_value_changed(s, SliderClamp(f.obj[1]), draws)
         IN  IF Len(f.obj) < SavedFields
             THEN [s1 EXCEPT !.warned = "UnpicklingError"]
             ELSE [set_show_hints(s1, f.obj[5])
                       EXCEPT !.blank_cells = f.obj[2],
                              !.current_cell = f.obj[3],
                              !.current_cell_text = f.obj[4],
                              !.ignored = Len(f.obj) - SavedFields]

\* variant: a tuple of any other length than 5 is malformed
read_file_exact_length(s, f, draws) ==
    IF f.kind = "missing" THEN [s EXCEPT !.warned = "EnvironmentError"]
    ELSE IF f.kind = "garbage" THEN [s EXCEPT !.warned = "UnpicklingError"]
    ELSE IF Len(f.obj) # SavedFields
    THEN [s EXCEPT !.warned = "UnpicklingError"]
    ELSE LET s1 == slider_value_changed(s, SliderClamp(f.obj[1]), draws)
             s2 == set_show_hints(s1, f.obj[5])
         IN  [s2 EXCEPT !.blank_cells = f.obj[2],
                        !.current_cell = f.obj[3],
                        !.current_cell_text = f.obj[4]]

\* s.ignored: the number of elements of the tuple left unread
read_file(s, f, draws) ==
    IF f.kind = "missing" THEN [s EXCEPT !.warned = "EnvironmentError"]
    ELSE IF f.kind = "garbage" THEN [s EXCEPT !.warned = "UnpicklingError"]
    ELSE IF Len(f.obj) < SavedFields
    THEN [s EXCEPT !.warned = "UnpicklingError"]
    ELSE LET s1 == slider_value_changed(s, SliderClamp(f.obj[1]), draws)
             s2 == set_show_hints(s1, f.obj[5])
         IN  [s2 EXCEPT !.blank_cells = f.obj[2],
                        !.current_cell = f.obj[3],
                        !.current_cell_text = f.obj[4],
                        !.ignored = Len(f.obj) - SavedFields]

\* what open() and pickle.load() can make of the stored file: the file as
\* written, an unreadable file, bytes that are no pickle, a tuple cut to its
\* first k fields, or the tuple a later version wrote with fields appended
FileViews(f) ==
    {f, NoFile}
    \cup (IF f.kind = "tuple"
          THEN {[kind |-> "garbage", obj |-> <<>>]}
               \cup {[kind |-> "tuple", obj |-> SubSeq(f.obj, 1, k)] :
                        k \in 0 .. Len(f.obj) - 1}
               \cup {[kind |-> "tuple", obj |-> f.obj \o <<"extra">>],
                     [kind |-> "tuple", obj |-> f.obj \o <<"extra", 0>>]}
          ELSE {})

-----------------------------------------------------------------------------
(* Init: the state __init__ leaves *)

InitWith(pool) ==
    /\ triangle_size = InitialSize
    /\ show_hints = FALSE
    /\ alert = FALSE
    /\ window_alerts = 0
    /\ current_cell = NoCell
    /\ current_cell_text = <<>>
    /\ \E draws \in RandomDraws(InitialSize, pool) :
           blank_cells = generate_blank_cell_list(draws)
    /\ file = NoFile
    /\ last = [op |-> "init", raised |-> "none", warned |-> "none",
               accepted |-> FALSE, alerted |-> FALSE, started |-> TRUE,
               checked |-> <<>>, ignored |-> 0]

-----------------------------------------------------------------------------
(* Actions: one per handler.  The parameters are the sets the              *)
(* specification lets the environment choose its inputs from.              *)

NewGameClicked(pool) ==
    /\ \E draws \in RandomDraws(triangle_size, pool) :
           Apply("start_game", start_game(State, draws))
    /\ UNCHANGED file

ButtonPress(targets) ==
    /\ \E found \in (targets \cap Cells(triangle_size)) \cup {NoCell} :
           Apply("button_press", button_press(State, found))
    /\ UNCHANGED file

KeyDigit(digits) ==
    /\ \E digit \in digits :
           LET s == key_press_digit(State, digit)
           IN  /\ s.window_alerts <= MaxAlerts
               /\ Apply("key_press_digit", s)
    /\ UNCHANGED file

KeyBackspace ==
    /\ Apply("key_press_backspace", key_press_backspace(State))
    /\ UNCHANGED file

\* any other key, or a key with a modifier: ignored
KeyIgnored ==
    /\ Apply("key_press_ignored", State)
    /\ UNCHANGED file

HintClicked ==
    /\ Apply("set_show_hints", set_show_hints(State, ~show_hints))
    /\ UNCHANGED file

SliderMoved(stops, pool) ==
    /\ \E value \in stops :
       \E draws \in IF value # triangle_size
                    THEN RandomDraws(value, pool) ELSE NoDraws :
           Apply("slider_value_changed",
                 slider_value_changed(State, value, draws))
    /\ UNCHANGED file

AlertResponse(pool) ==
    /\ window_alerts > 0
    /\ \E draws \in RandomDraws(triangle_size, pool) :
           Apply("alert_response", alert_response(State, draws))
    /\ UNCHANGED file

WriteFile ==
    \E io_ok \in BOOLEAN :
        IF io_ok
        THEN /\ file' = [kind |-> "tuple", obj |-> write_obj(State)]
             /\ Apply("write_file", State)
        ELSE /\ file' = file
             /\ Apply("write_file",
                      [State EXCEPT !.warned = "EnvironmentError"])

\* the size read_file hands to the slider, when it gets that far
LoadedSize(f) ==
    IF f.kind = "tuple" /\ Len(f.obj) >= SavedFields
    THEN SliderClamp(f.obj[1]) ELSE triangle_size

ReadFile(pool) ==
    /\ \E f \in FileViews(file) :
       \E draws \in IF LoadedSize(f) # triangle_size
                    THEN RandomDraws(LoadedSize(f), pool) ELSE NoDraws :
           Apply("read_file", read_file(State, f, draws))
    /\ UNCHANGED file

-----------------------------------------------------------------------------
(* Specifications.  Each fixes the inputs its environment supplies: the    *)
(* sizes the slider is moved to, the cells the random source returns, the  *)
(* cells the pointer is pressed on and the digit keys pressed.             *)

\* Spec: every handler, the journal included
Sizes == {2, 5}
Pool == {<<1, 0>>, <<4, 4>>}
Clicks == {<<1, 0>>}
Digits == {1}

Init == InitWith(Pool)

Next ==
    \/ NewGameClicked(Pool)
    \/ ButtonPress(Clicks)
    \/ KeyDigit(Digits)
    \/ KeyBackspace
    \/ KeyIgnored
    \/ HintClicked
    \/ SliderMoved(Sizes, Pool)
    \/ AlertResponse(Pool)
    \/ WriteFile
    \/ ReadFile(Pool)

Spec == Init /\ [][Next]_vars

\* SpecPlay: game play in the top three rows, without the journal; cell
\* (1, 1) is never blank
PlaySizes == {2, 3, 5}
PlayPool == {<<0, 0>>, <<1, 0>>, <<2, 1>>}
PlayClicks == PlayPool \cup {<<1, 1>>}
PlayDigits == {0, 1, 2}

InitPlay == InitWith(PlayPool)

NextPlay ==
    \/ NewGameClicked(PlayPool)
    \/ ButtonPress(PlayClicks)
    \/ KeyDigit(PlayDigits)
    \/ KeyBackspace
    \/ KeyIgnored
    \/ HintClicked
    \/ SliderMoved(PlaySizes, PlayPool)
    \/ AlertResponse(PlayPool)

SpecPlay == InitPlay /\ [][NextPlay]_vars

\* SpecWide: game play in the largest triangle
WideSizes == {5, SliderMax}
WidePool == {<<1, 0>>, <<4, 2>>, <<9, 4>>}
WideClicks == WidePool
WideDigits == {1, 2, 6}

InitWide == InitWith(WidePool)

NextWide ==
    \/ NewGameClicked(WidePool)
    \/ ButtonPress(WideClicks)
    \/ KeyDigit(WideDigits)
    \/ KeyBackspace
    \/ SliderMoved(WideSizes, WidePool)
    \/ AlertResponse(WidePool)

SpecWide == InitWide /\ [][NextWide]_vars

\* SpecGen: new games in every size, the last cell of every row and three
\* cells of the last row of the largest triangle drawn; the slider moves by
\* its step increment
GenPool ==
    {c \in Cells(SliderMax) : c[2] = c[1]}
        \cup {<<SliderMax - 1, 0>>, <<SliderMax - 1, 4>>}

SliderSteps == {triangle_size - 1, triangle_size + 1}
                   \cap (SliderMin .. SliderMax)

InitGen == InitWith(GenPool)

NextGen ==
    \/ NewGameClicked(GenPool)
    \/ SliderMoved(SliderSteps, GenPool)

SpecGen == InitGen /\ [][NextGen]_vars

-----------------------------------------------------------------------------
(* Specification of the selection and the hints, in every size of the slider:
   the pointer selects any cell of the triangle or none, the hints button
   toggles the hints, the slider moves by its step increment; the random
   source returns the top cell *)

HintPool == {<<0, 0>>}

HintClicks == Cells(SliderMax)

InitHint == InitWith(HintPool)

NextHint ==
    \/ ButtonPress(HintClicks)
    \/ HintClicked
    \/ SliderMoved(SliderSteps, HintPool)

SpecHint == InitHint /\ [][NextHint]_vars

-----------------------------------------------------------------------------
(* Specification of the selection across sizes and loads: the pointer is
   pressed on a cell of the second row and on the last cell of the fifth,
   which the triangle of size 2 does not have; games are saved and loaded
   in both sizes *)

LoadSizes == {SliderMin, InitialSize}
LoadPool == {<<1, 0>>}
LoadClicks == {<<1, 0>>, <<InitialSize - 1, InitialSize - 1>>}
LoadDigits == {1}

InitLoad == InitWith(LoadPool)

NextLoad ==
    \/ NewGameClicked(LoadPool)
    \/ ButtonPress(LoadClicks)
    \/ KeyDigit(LoadDigits)
    \/ SliderMoved(LoadSizes, LoadPool)
    \/ AlertResponse(LoadPool)
    \/ WriteFile
    \/ ReadFile(LoadPool)

SpecLoad == InitLoad /\ [][NextLoad]_vars

-----------------------------------------------------------------------------
(* Terms of the properties *)

BlankSet == Range(blank_cells)

ValidCell(c, n) == 0 <= c[1] /\ c[1] < n /\ 0 <= c[2] /\ c[2] <= c[1]

NoDuplicates(l) == \A i, j \in 1 .. Len(l) : l[i] = l[j] => i = j

RECURSIVE Pow10(_)
Pow10(k) == IF k = 0 THEN 1 ELSE 10 * Pow10(k - 1)

RECURSIVE PlaceSum(_, _)
PlaceSum(text, i) ==
    IF i > Len(text) THEN 0
    ELSE CharValue(text[i]) * Pow10(Len(text) - i) + PlaceSum(text, i + 1)

\* the number a string of decimal digits denotes, leading zeros allowed
NumericValue(text) == PlaceSum(text, 1)

RECURSIVE TypeDigits(_, _)
TypeDigits(s, ds) ==
    IF ds = <<>> THEN s
    ELSE TypeDigits(key_press_digit(s, Head(ds)), Tail(ds))

\* press the pointer on cell c, then type the digits of its value
FillCell(s, c) ==
    TypeDigits(button_press(s, c), DecimalDigits(calculate_pascal_number(c)))

\* the text the digit key of this step was checked with
TypedText(text) ==
    {IF Len(text) < MaxTextLen THEN text \o <<DigitChar(d)>> ELSE text :
        d \in 0 .. 9}

-----------------------------------------------------------------------------
(* C1 *)

\* C1: every blank cell can be filled: pressing the pointer on a blank cell
\* that is not the selected one and typing the decimal digits of its value,
\* in order, removes it from the blank cells.
C1_BlankCellCanBeFilled ==
    \A c \in BlankSet :
        c # current_cell => c \notin Range(FillCell(State, c).blank_cells)

-----------------------------------------------------------------------------
(* C2 *)

\* C2: a digit key pressed while no cell is selected changes nothing (the
\* text, the blank cells, the selection, the size and the hints stay) and
\* raises no error.
C2_DigitWithoutSelectionIsNoOp ==
    [][(last'.op = "key_press_digit" /\ current_cell = NoCell)
          => (UNCHANGED game /\ last'.raised = "none")]_vars

-----------------------------------------------------------------------------
(* C3 *)

\* C3: a 'game over' alert is raised only by a step whose answer check
\* accepts the text and removes the last blank cell.
C3_AlertOnlyWhenLastCellFilled ==
    [][last'.alerted
          => (last'.accepted /\ Len(blank_cells) = 1 /\ blank_cells' = <<>>)]_vars

-----------------------------------------------------------------------------
(* C4 *)

\* C4: a digit key on a selected blank cell is checked by numeric equality:
\* when the number the typed text denotes (leading zeros allowed) equals the
\* cell's value, the cell leaves the blank cells, the selection becomes none
\* and the text empty; when it differs, blank cells and selection stay.
C4_NumericEquality ==
    [][(last'.op = "key_press_digit" /\ current_cell \in BlankSet)
          => /\ last'.checked \in TypedText(current_cell_text)
             /\ IF NumericValue(last'.checked)
                       = calculate_pascal_number(current_cell)
                THEN /\ Range(blank_cells') = BlankSet \ {current_cell}
                     /\ Len(blank_cells') = Len(blank_cells) - 1
                     /\ current_cell' = NoCell
                     /\ current_cell_text' = <<>>
                ELSE /\ blank_cells' = blank_cells
                     /\ current_cell' = current_cell]_vars

\* "02" was accepted for a cell of value 2, and blank cells remain
C4_Witness ==
    /\ last.op = "key_press_digit"
    /\ last.accepted
    /\ last.checked = <<"0", "2">>
    /\ blank_cells # <<>>

-----------------------------------------------------------------------------
(* C5 *)

\* C5: when an accepted answer removes the last blank cell an alert is
\* pending afterwards, and the response to it starts a game of the same
\* size: blank cells non-empty, no selection, no text, no alert pending.
C5_WinThenNewGame ==
    [][/\ (last'.accepted /\ blank_cells' = <<>>)
            => (alert' /\ window_alerts' > 0)
       /\ last'.op = "alert_response"
            => /\ blank_cells' # <<>>
               /\ current_cell' = NoCell
               /\ current_cell_text' = <<>>
               /\ triangle_size' = triangle_size
               /\ ~alert'
               /\ window_alerts' = 0]_vars

-----------------------------------------------------------------------------
(* C6 *)

\* C6: save/load round trip: write_file stores size, blank cells, selection,
\* text and hints of the state it saves, and a load that succeeds, from any
\* state, leaves exactly the stored five in the state.
C6_SaveLoadRoundTrip ==
    [][/\ (last'.op = "write_file" /\ last'.warned = "none")
            => file'.obj = <<triangle_size, blank_cells, current_cell,
                             current_cell_text, show_hints>>
       /\ (last'.op = "read_file" /\ last'.warned = "none")
            => /\ file.kind = "tuple"
               /\ game' = file.obj]_vars

\* a load that changed the size (and so started a game on the way) restored
\* a selection, a text and the hints
C6_Witness ==
    /\ last.op = "read_file"
    /\ last.warned = "none"
    /\ last.started
    /\ current_cell # NoCell
    /\ current_cell_text # <<>>
    /\ show_hints

-----------------------------------------------------------------------------
(* C7 *)

\* a file read_file cannot use: unreadable, no pickle, or fewer than 5 fields
BadFile(f) == f.kind # "tuple" \/ Len(f.obj) < SavedFields

\* C7: a load of an unreadable, malformed or short file logs a warning, and
\* a load that logs a warning leaves size, blank cells, selection, text,
\* hints and alerts as they were.
C7_FailedLoadLeavesState ==
    /\ [](\A f \in FileViews(file) :
             BadFile(f) =>
                 LET r == read_file(State, f, <<>>)
                 IN  /\ r.warned # "none"
                     /\ [r EXCEPT !.warned = "none"] = State)
    /\ [][(last'.op = "read_file" /\ last'.warned # "none")
             => UNCHANGED <<game, alert, window_alerts, file>>]_vars

\* a failed load in a state that differs from a fresh game
C7_Witness ==
    /\ last.op = "read_file"
    /\ last.warned = "UnpicklingError"
    /\ file.kind = "tuple"
    /\ current_cell # NoCell
    /\ current_cell_text # <<>>
    /\ triangle_size # InitialSize

-----------------------------------------------------------------------------
(* C8 *)

\* C8: a digit key on a selected cell that is not blank, when the typed text
\* denotes the cell's value, leaves blank cells and selection as they were
\* and raises no error.
C8_DigitOnRevealedCellHarmless ==
    [][(/\ last'.op = "key_press_digit"
        /\ current_cell \in Cells(triangle_size)
        /\ current_cell \notin BlankSet
        /\ \E text \in TypedText(current_cell_text) :
               NumericValue(text) = calculate_pascal_number(current_cell))
          => /\ blank_cells' = blank_cells
             /\ current_cell' = current_cell
             /\ last'.raised = "none"]_vars

-----------------------------------------------------------------------------
(* C9 *)

\* C9: the list a new game generates is non-empty, has no duplicates, and
\* holds only cells of the triangle: 0 <= row < size, 0 <= column <= row.
C9_GeneratedBlankCells ==
    last.started =>
        /\ Len(blank_cells) >= 1
        /\ NoDuplicates(blank_cells)
        /\ \A c \in BlankSet : ValidCell(c, triangle_size)

\* two draws of the largest triangle, one of them its last cell
C9_Witness ==
    /\ last.op = "slider_value_changed"
    /\ last.started
    /\ triangle_size = SliderMax
    /\ Len(blank_cells) = MaxDraws
    /\ <<SliderMax - 1, SliderMax - 1>> \in BlankSet

-----------------------------------------------------------------------------
(* C10 *)

\* C10: every blank cell is a cell of the current triangle.
C10_BlankCellsInTriangle ==
    \A c \in BlankSet : ValidCell(c, triangle_size)

\* a load that shrank the triangle to its smallest size
C10_Witness ==
    /\ last.op = "read_file"
    /\ last.started
    /\ triangle_size = SliderMin
    /\ blank_cells # <<>>

-----------------------------------------------------------------------------
(* C11 *)

IsDigitText(text) ==
    \A i \in 1 .. Len(text) : \E d \in 0 .. 9 : text[i] = DigitChar(d)

\* the text with one digit character appended
OneDigitMore(text) == {text \o <<DigitChar(d)>> : d \in 0 .. 9}

\* C11 as stated: the text is always at most 2 decimal digits; a digit key
\* leaves it one digit character longer when its length is below 2 and
\* unchanged when its length is 2.
C11_DigitAppendsOneCharacter ==
    /\ [](Len(current_cell_text) <= MaxTextLen
              /\ IsDigitText(current_cell_text))
    /\ [][last'.op = "key_press_digit"
             => IF Len(current_cell_text) < MaxTextLen
                THEN current_cell_text' \in OneDigitMore(current_cell_text)
                ELSE current_cell_text' = current_cell_text]_vars

\* C11, amended: the text is always at most 2 decimal digits; a digit key
\* leaves it one digit character longer when its length is below 2 and
\* unchanged when its length is 2, unless the answer check accepts the
\* text, which leaves it empty.
C11_TextAtMostTwoDigits ==
    /\ [](Len(current_cell_text) <= MaxTextLen
              /\ IsDigitText(current_cell_text))
    /\ [][last'.op = "key_press_digit"
             => IF last'.accepted
                THEN /\ current_cell_text' = <<>>
                     /\ last'.checked \in TypedText(current_cell_text)
                ELSE IF Len(current_cell_text) < MaxTextLen
                THEN current_cell_text' \in OneDigitMore(current_cell_text)
                ELSE current_cell_text' = current_cell_text]_vars

\* a digit key on a full text of a selected blank cell
C11_Witness ==
    /\ last.op = "key_press_digit"
    /\ ~last.accepted
    /\ Len(current_cell_text) = MaxTextLen
    /\ Len(last.checked) = MaxTextLen
    /\ current_cell \in BlankSet

-----------------------------------------------------------------------------
(* C12 *)

\* C12: a pointer press, a digit key (its answer check), a new game or a
\* slider move that leaves another selection than before leaves the text
\* empty.
C12_TextResetOnSelectionChange ==
    [][(/\ last'.op \in {"button_press", "key_press_digit", "start_game",
                         "alert_response", "slider_value_changed"}
        /\ current_cell' # current_cell)
          => current_cell_text' = <<>>]_vars

\* the pointer moved the selection from one cell to another: the text typed
\* on the revealed cell (1, 1) can only be "1..." and (2, 1) is now selected
C12_Witness ==
    /\ last.op = "button_press"
    /\ current_cell = <<2, 1>>
    /\ current_cell_text = <<>>
    /\ triangle_size = 3

-----------------------------------------------------------------------------
(* C13 *)

\* C13: a pointer press, a key or the hints button never adds a blank cell;
\* the only such step that changes the blank cells is a digit key that
\* removes exactly the selected cell.
C13_BlankCellsShrink ==
    [][last'.op \in {"button_press", "key_press_digit", "key_press_backspace",
                     "key_press_ignored", "set_show_hints"}
          => \/ blank_cells' = blank_cells
             \/ /\ last'.op = "key_press_digit"
                /\ current_cell \in BlankSet
                /\ Range(blank_cells') = BlankSet \ {current_cell}
                /\ Len(blank_cells') = Len(blank_cells) - 1]_vars

\* the second of two blank cells was filled and the first remains
C13_Witness ==
    /\ last.op = "key_press_digit"
    /\ last.accepted
    /\ blank_cells = <<<<0, 0>>>>
    /\ ~alert

-----------------------------------------------------------------------------
(* C14 *)

\* blank cells as a game of size n starts with: some cells of the triangle,
\* each once
FreshBlankCells(l, n) ==
    /\ l # <<>>
    /\ NoDuplicates(l)
    /\ \A i \in 1 .. Len(l) : ValidCell(l[i], n)

-----------------------------------------------------------------------------
(* C15 *)

\* the state is the one start_game leaves from s for some draws
StartedFrom(s) ==
    /\ FreshBlankCells(blank_cells', s.triangle_size)
    /\ LET g == start_game(s, blank_cells')
       IN  /\ triangle_size' = g.triangle_size
           /\ blank_cells' = g.blank_cells
           /\ current_cell' = g.current_cell
           /\ current_cell_text' = g.current_cell_text
           /\ show_hints' = g.show_hints
           /\ alert' = g.alert
           /\ window_alerts' = g.window_alerts
           /\ last'.started

\* C15: a slider step to the current size changes nothing, a pending alert
\* included; a step to another size sets the size and then does what
\* start_game does.
C15_SliderSameSizeOrNewGame ==
    [][last'.op = "slider_value_changed"
          => IF triangle_size' = triangle_size
             THEN /\ UNCHANGED <<game, alert, window_alerts>>
                  /\ ~last'.started
             ELSE StartedFrom(
                      [State EXCEPT !.triangle_size = triangle_size'])]_vars

\* the slider was set to the current size while a game was in progress with
\* an alert pending
C15_Witness ==
    /\ last.op = "slider_value_changed"
    /\ ~last.started
    /\ alert
    /\ window_alerts > 0
    /\ blank_cells = <<>>

-----------------------------------------------------------------------------
(* C16 *)

\* C16: a pointer press on the selected cell changes nothing and keeps the
\* text; on another cell it selects that cell and empties the text; one that
\* hits no cell selects none; blank cells, size and hints stay in all cases,
\* and every cell of the triangle, blank or not, can be selected.
C16_PointerSelectsCell ==
    /\ [](\A c \in Cells(triangle_size) \cup {NoCell} :
              LET r == button_press(State, c)
              IN  /\ r.current_cell = c
                  /\ c = current_cell => r = State
                  /\ c # current_cell => r.current_cell_text = <<>>
                  /\ r.blank_cells = blank_cells
                  /\ r.triangle_size = triangle_size
                  /\ r.show_hints = show_hints)
    /\ [][last'.op = "button_press"
             => /\ UNCHANGED <<blank_cells, triangle_size, show_hints>>
                /\ current_cell' \in Cells(triangle_size) \cup {NoCell}
                /\ current_cell' = current_cell
                       => current_cell_text' = current_cell_text
                /\ current_cell' # current_cell
                       => current_cell_text' = <<>>]_vars

\* the pointer was pressed on the selected, revealed cell (1, 1) and the
\* text typed on it is still there
C16_Witness ==
    /\ last.op = "button_press"
    /\ current_cell = <<1, 1>>
    /\ current_cell \notin BlankSet
    /\ current_cell_text # <<>>

-----------------------------------------------------------------------------
(* C17 *)

\* C17: the BackSpace key removes the last character of a non-empty text and
\* does nothing to an empty one; no answer check runs, so blank cells and
\* selection stay and no alert is added.
C17_BackspaceRemovesLastCharacter ==
    [][last'.op = "key_press_backspace"
          => /\ current_cell_text'
                    = IF current_cell_text = <<>>
                      THEN <<>>
                      ELSE SubSeq(current_cell_text, 1,
                                  Len(current_cell_text) - 1)
             /\ UNCHANGED <<blank_cells, current_cell, triangle_size,
                            show_hints, alert, window_alerts>>
             /\ last'.checked = <<>>
             /\ last'.raised = "none"
             /\ ~last'.accepted
             /\ ~last'.alerted]_vars

\* BackSpace took the second character off the text of a selected blank
\* cell; the character left is not the number of the cell
C17_Witness ==
    /\ last.op = "key_press_backspace"
    /\ current_cell \in BlankSet
    /\ Len(current_cell_text) = 1
    /\ NumericValue(current_cell_text) # calculate_pascal_number(current_cell)

-----------------------------------------------------------------------------
(* C18 *)

\* an edge cell: first or last of its row
EdgeCell(c) == c[2] = 0 \/ c[2] = c[1]

\* the two cells above c, whether or not they are cells of the triangle
ParentsOf(c) == {<<c[1] - 1, c[2] - 1>>, <<c[1] - 1, c[2]>>}

\* C18: the classification is first match in the order selected (green),
\* edge (blue), parent (yellow), none (white): the selected cell is green;
\* with hints on and an edge cell selected every other edge cell is blue,
\* one that is a parent of the selection too, and no cell is yellow; with
\* hints on and a non-edge cell selected exactly its two parents are yellow
\* and no cell is blue.
C18_FirstMatchClassification ==
    \A c \in Cells(triangle_size) :
        LET bg == get_cell_background(State, c)
        IN  /\ c = current_cell => bg = "green"
            /\ (show_hints /\ current_cell # NoCell /\ EdgeCell(current_cell))
                 => /\ bg # "yellow"
                    /\ (c # current_cell /\ EdgeCell(c)) => bg = "blue"
                    /\ (c # current_cell /\ ~EdgeCell(c)) => bg = "white"
            /\ (show_hints /\ current_cell # NoCell /\ ~EdgeCell(current_cell))
                 => /\ bg # "blue"
                    /\ bg = "yellow" <=> c \in ParentsOf(current_cell)
                    /\ ParentsOf(current_cell) \subseteq Cells(triangle_size)

\* hints on, the edge cell (3, 0) selected: its parent (2, 0), an edge cell,
\* is blue
C18_Witness ==
    /\ show_hints
    /\ current_cell = <<3, 0>>
    /\ get_cell_background(State, <<2, 0>>) = "blue"
    /\ get_cell_background(State, <<2, 1>>) = "white"

-----------------------------------------------------------------------------
(* C19 *)

\* C19: with hints off, for every selection, the selected cell is green and
\* every other cell of the triangle white; with no selection every cell of
\* the triangle is white, hints on or off.
C19_NoHintsNoSelection ==
    \A c \in Cells(triangle_size) :
        LET bg == get_cell_background(State, c)
        IN  /\ ~show_hints
                 => bg = IF c = current_cell THEN "green" ELSE "white"
            /\ current_cell = NoCell => bg = "white"

\* the hints were turned on with no cell selected
C19_Witness ==
    /\ last.op = "set_show_hints"
    /\ show_hints
    /\ current_cell = NoCell
    /\ triangle_size > InitialSize

-----------------------------------------------------------------------------
(* C20 *)

RECURSIVE Binomial(_, _)
\* the binomial coefficient, by Pascal's rule
Binomial(n, k) ==
    IF k = 0 \/ k = n
    THEN 1
    ELSE Binomial(n - 1, k - 1) + Binomial(n - 1, k)

\* the cells the hint of the two cells above shows when c is selected
YellowCells(c) ==
    {p \in Cells(triangle_size) :
        get_cell_background([State EXCEPT !.current_cell = c,
                                          !.show_hints = TRUE], p) = "yellow"}

\* C20: in every size of the slider the number of every cell of the triangle
\* is the binomial coefficient of its row and column: 1 for an edge cell,
\* for any other cell the sum of the numbers of the two cells above it, the
\* cells the parent hint shows.
C20_PascalNumberIsBinomial ==
    /\ triangle_size \in SliderMin .. SliderMax
    /\ \A c \in Cells(triangle_size) :
           /\ ~pascal_number_raises(c)
           /\ calculate_pascal_number(c) = Binomial(c[1], c[2])
           /\ EdgeCell(c) => calculate_pascal_number(c) = 1
           /\ ~EdgeCell(c)
                => /\ calculate_pascal_number(c)
                         = calculate_pascal_number(<<c[1] - 1, c[2] - 1>>)
                             + calculate_pascal_number(<<c[1] - 1, c[2]>>)
                   /\ YellowCells(c) = ParentsOf(c)

\* the largest triangle, the cell (9, 4) of the largest number selected
C20_Witness ==
    /\ triangle_size = SliderMax
    /\ current_cell = <<SliderMax - 1, 4>>
    /\ calculate_pascal_number(current_cell) = 126

-----------------------------------------------------------------------------
(* C21 *)

\* the tuple of f cut to the five fields write_file stores
FirstFive(f) == [f EXCEPT !.obj = SubSeq(@, 1, SavedFields)]

\* the draws a load of f makes in the state
LoadDraws(f) ==
    IF LoadedSize(f) # triangle_size
    THEN RandomDraws(LoadedSize(f), Pool)
    ELSE NoDraws

\* C21: a load of a tuple of the five fields followed by more succeeds and
\* leaves the state a load of its first five fields leaves.
C21_LoadIgnoresExtraFields ==
    /\ [](\A f \in FileViews(file) :
             (f.kind = "tuple" /\ Len(f.obj) > SavedFields) =>
                 \A draws \in LoadDraws(f) :
                     LET r == read_file(State, f, draws)
                     IN  /\ r.warned = "none"
                         /\ r.raised = "none"
                         /\ r.ignored = Len(f.obj) - SavedFields
                         /\ [r EXCEPT !.ignored = 0]
                                = read_file(State, FirstFive(f), draws))
    /\ [][(last'.op = "read_file" /\ last'.ignored > 0)
             => /\ last'.warned = "none"
                /\ file.kind = "tuple"
                /\ \A draws \in LoadDraws(file) :
                       LET r == read_file(State, file, draws)
                       IN  /\ game' = write_obj(r)
                           /\ alert' = r.alert
                           /\ window_alerts' = r.window_alerts]_vars

\* a load of a tuple with two more fields changed the size and restored a
\* selection and a text
C21_Witness ==
    /\ last.op = "read_file"
    /\ last.ignored = 2
    /\ last.started
    /\ current_cell # NoCell
    /\ current_cell_text # <<>>

-----------------------------------------------------------------------------
(* C22 *)

\* C22: in every reachable state, loads of saved games included, a victory
\* alert is pending exactly when no blank cell is left.
C22_AlertIffNoBlankCell ==
    window_alerts > 0 <=> blank_cells = <<>>

-----------------------------------------------------------------------------
(* C23 *)

\* C23: in every reachable state, resizes and loads of saved games included,
\* the selection is none or a cell of the triangle of the current size, so
\* the number a digit key is checked against is that of such a cell.
C23_SelectionInTriangle ==
    /\ [](current_cell = NoCell \/ ValidCell(current_cell, triangle_size))
    /\ [][(last'.op = "key_press_digit" /\ current_cell # NoCell)
             => /\ ValidCell(current_cell, triangle_size)
                /\ ~pascal_number_raises(current_cell)]_vars

\* a game of size 5 with its last cell selected was loaded over a game of
\* size 2
C23_Witness ==
    /\ last.op = "read_file"
    /\ last.started
    /\ triangle_size = InitialSize
    /\ current_cell = <<InitialSize - 1, InitialSize - 1>>
    /\ ~ValidCell(current_cell, SliderMin)

====
